---- MODULE Spec2Model ----
(***************************************************************************)
(* DICOM slice ingestion and ordering pipeline of the synthesis page:      *)
(* processDICOMFiles decodes every selected file (one async task per file, *)
(* joined by Promise.all), sorts the decoded files with the tiered          *)
(* comparator and publishes the result in sortedFiles.                     *)
(***************************************************************************)
EXTENDS Integers, Naturals, Sequences, FiniteSets, TLC

(***************************************************************************)
(* JavaScript numbers.  A number is finite, NaN, +Infinity or -Infinity.   *)
(* Finite values are integers here: every tag value of the model parses to *)
(* an integer and products and sums of integers stay exact in a double.    *)
(* Undef is the JavaScript value undefined (a property that was never set).*)
(***************************************************************************)
Fin(n) == [k |-> "fin", v |-> n]
NaN == [k |-> "nan", v |-> 0]
PInf == [k |-> "inf", v |-> 1]
NInf == [k |-> "inf", v |-> -1]
Undef == [k |-> "undef", v |-> 0]

IsFin(x) == x.k = "fin"
IsNaN(x) == x.k = "nan"
IsInf(x) == x.k = "inf"

\* sign of a non-NaN number: -1, 0 or 1
SignOf(x) == IF x.v < 0 THEN -1 ELSE IF x.v > 0 THEN 1 ELSE 0

\* x * y in IEEE-754: NaN is contagious, 0 * Infinity is NaN
Mul(x, y) ==
    IF IsNaN(x) \/ IsNaN(y) THEN NaN
    ELSE IF IsFin(x) /\ IsFin(y) THEN Fin(x.v * y.v)
    ELSE IF SignOf(x) = 0 \/ SignOf(y) = 0 THEN NaN
    ELSE IF SignOf(x) = SignOf(y) THEN PInf ELSE NInf

\* x + y in IEEE-754: Infinity + (-Infinity) is NaN
Add(x, y) ==
    IF IsNaN(x) \/ IsNaN(y) THEN NaN
    ELSE IF IsFin(x) /\ IsFin(y) THEN Fin(x.v + y.v)
    ELSE IF IsInf(x) /\ IsInf(y) THEN (IF x.v = y.v THEN x ELSE NaN)
    ELSE IF IsInf(x) THEN x ELSE y

Neg(x) == IF IsNaN(x) THEN NaN ELSE [k |-> x.k, v |-> 0 - x.v]

\* x - y
Sub(x, y) == Add(x, Neg(y))

\* x < y on non-NaN numbers
Less(x, y) ==
    IF IsInf(x) THEN x.v < 0 /\ ~(IsInf(y) /\ y.v < 0)
    ELSE IF IsInf(y) THEN y.v > 0
    ELSE x.v < y.v

\* Math.min and Math.max: NaN if either argument is NaN
MathMin(x, y) == IF IsNaN(x) \/ IsNaN(y) THEN NaN ELSE IF Less(y, x) THEN y ELSE x
MathMax(x, y) == IF IsNaN(x) \/ IsNaN(y) THEN NaN ELSE IF Less(x, y) THEN y ELSE x

(***************************************************************************)
(* Tag strings.  dataSet.string(tag) yields the element's text, or         *)
(* undefined when the element is absent.  The texts of the model are the   *)
(* tokens below; NoTag stands for an absent element.                       *)
(***************************************************************************)
NoTag == "<absent>"

\* parseFloat(s): leading decimal literal or Infinity, else NaN
ParseFloat(s) ==
    CASE s = "0" -> Fin(0)
      [] s = "1" -> Fin(1)
      [] s = "2" -> Fin(2)
      [] s = "-1" -> Fin(-1)
      [] s = "-2000" -> Fin(-2000)
      [] s = "Infinity" -> PInf
      [] s = "-Infinity" -> NInf
      [] OTHER -> NaN

\* parseInt(s, 10): leading decimal integer, else NaN ("Infinity" has no digit)
ParseInt(s) ==
    CASE s = "0" -> Fin(0)
      [] s = "1" -> Fin(1)
      [] s = "2" -> Fin(2)
      [] s = "-1" -> Fin(-1)
      [] OTHER -> NaN

\* truthiness of the value returned by dataSet.string: undefined and "" are falsy
Truthy(s) == s # NoTag /\ s # ""

(***************************************************************************)
(* Input files.  A file is described by what dicomParser.parseDicom finds  *)
(* in its bytes:                                                           *)
(*   name            File.name, a sequence of characters whose last one is *)
(*                   the extension                                         *)
(*   wellFormed      parseDicom returns a data set (it throws otherwise)   *)
(*   hasPixelData, hasRows, hasColumns                                     *)
(*                   elements x7fe00010, x00280010, x00280011 are present  *)
(*   rows, columns   the values of the rows and columns elements           *)
(*   ipp             text of x00200032 split at "\\" (<<>> when absent)    *)
(*   sl, inst, slope, intercept                                            *)
(*                   texts of x00201041, x00200013, x00281053, x00281052   *)
(*   dataOffset      byte offset of the pixel data in the buffer           *)
(*   pixelLength     byte length of the pixel data element                 *)
(*   words           the 16-bit words stored from dataOffset on            *)
(***************************************************************************)
Word16 == 65536
Int16Min == 32768

\* the word read as an unsigned 16-bit integer
ToUint16(w) == w % Word16

\* the signed 16-bit reading of a stored 16-bit word (Int16Array element)
ToInt16(w) == IF (w % Word16) >= Int16Min THEN (w % Word16) - Word16 ELSE w % Word16

HuMin == -1000
HuMax == 3000

\* Math.max(-1000, Math.min(huValue, 3000))
ClampHU(hu) == MathMax(Fin(HuMin), MathMin(hu, Fin(HuMax)))

\* the File object's own properties before processDICOMFiles has touched it
FreshObj(f, i) ==
    [idx |-> i, name |-> f.name,
     imagePosition |-> <<>>, sliceLocation |-> Undef, instanceNumber |-> Undef,
     rescaleSlope |-> Undef, rescaleIntercept |-> Undef,
     pixelSet |-> FALSE, pixelData |-> <<>>]

\* the presence check without its third clause
HasPixelDataAndRows(f) == f.hasPixelData /\ f.hasRows

\* all three mandatory elements are present
HasMandatoryTags(f) == f.hasPixelData /\ f.hasRows /\ f.hasColumns

\* imagePositionPatientStr.split('\\').map(p => parseFloat(p)), kept when length 3
ImagePositionOf(f) ==
    LET parts == [j \in 1..Len(f.ipp) |-> ParseFloat(f.ipp[j])]
    IN IF f.ipp # <<>> /\ f.ipp # <<"">> /\ Len(parts) = 3 THEN parts ELSE <<>>

\* sliceLocation = parseFloat(sliceLocationStr) when the text is truthy
SliceLocationOf(f) == IF Truthy(f.sl) THEN ParseFloat(f.sl) ELSE Undef

\* instanceNumber = parseInt(instanceNumberStr, 10) unless that is NaN
InstanceNumberOf(f) ==
    IF Truthy(f.inst) /\ ~IsNaN(ParseInt(f.inst)) THEN ParseInt(f.inst) ELSE Undef

\* the slope taken from the text without the isNaN test
RescaleSlopeUnchecked(f) == IF Truthy(f.slope) THEN ParseFloat(f.slope) ELSE Fin(1)

\* rescaleSlope: 1, replaced by the parsed text unless that is NaN
RescaleSlopeOf(f) ==
    IF Truthy(f.slope) /\ ~IsNaN(ParseFloat(f.slope)) THEN ParseFloat(f.slope) ELSE Fin(1)

\* rescaleIntercept: 0, replaced by the parsed text unless that is NaN
RescaleInterceptOf(f) ==
    IF Truthy(f.intercept) /\ ~IsNaN(ParseFloat(f.intercept))
    THEN ParseFloat(f.intercept) ELSE Fin(0)

\* number of elements of new Int16Array(buffer, dataOffset, length / 2)
PixelCount(f) == f.pixelLength \div 2

\* new Int16Array(buffer, offset, n) throws a RangeError when offset is odd
Int16ArrayThrows(f) == f.dataOffset % 2 # 0

\* new Float32Array(pixelData.length) throws a RangeError when the buffer
\* cannot be allocated; whether it can is the environment's choice, carried
\* by the file it is made for
Float32ArrayThrows(f) == f.allocFails

\* the loop over pixelData: value * slope + intercept, clamped
NormalizedPixels(f) ==
    [j \in 1..PixelCount(f) |->
        ClampHU(Add(Mul(Fin(ToInt16(f.words[j])), RescaleSlopeOf(f)), RescaleInterceptOf(f)))]

(***************************************************************************)
(* One decode task (the async callback of files.map).  The result is       *)
(* ok = FALSE for "return null" and ok = TRUE for "return dicomFile"; obj   *)
(* is the File object as the task leaves it (the task writes its fields   *)
(* into the File itself).                                                  *)
(***************************************************************************)
Decode(f, i) ==
    LET fresh == FreshObj(f, i)
        meta == [fresh EXCEPT !.imagePosition = ImagePositionOf(f),
                              !.sliceLocation = SliceLocationOf(f),
                              !.instanceNumber = InstanceNumberOf(f),
                              !.rescaleSlope = RescaleSlopeOf(f),
                              !.rescaleIntercept = RescaleInterceptOf(f)]
    IN  IF ~f.wellFormed THEN [ok |-> FALSE, obj |-> fresh]
        ELSE IF ~HasMandatoryTags(f) THEN [ok |-> FALSE, obj |-> fresh]
        ELSE IF Int16ArrayThrows(f) THEN [ok |-> FALSE, obj |-> meta]
        ELSE IF Float32ArrayThrows(f) THEN [ok |-> FALSE, obj |-> meta]
        ELSE [ok |-> TRUE,
              obj |-> [meta EXCEPT !.pixelSet = TRUE, !.pixelData = NormalizedPixels(f)]]

(***************************************************************************)
(* File names and String.prototype.localeCompare(.., {numeric: true}).     *)
(* A name is a sequence of characters; its last character stands for the   *)
(* extension.  With numeric collation a run of digits is compared by its   *)
(* numeric value, everything else character by character in collation      *)
(* order (punctuation, then digits, then letters).                         *)
(***************************************************************************)
Digits == {"0", "1", "2", "3", "4", "5", "6", "7", "8", "9"}

DigitVal(c) ==
    CASE c = "0" -> 0 [] c = "1" -> 1 [] c = "2" -> 2 [] c = "3" -> 3 [] c = "4" -> 4
      [] c = "5" -> 5 [] c = "6" -> 6 [] c = "7" -> 7 [] c = "8" -> 8 [] c = "9" -> 9

\* collation rank of a character that is decided by itself
CharRank(c) ==
    CASE c = ".dcm" -> 1
      [] c = ".DCM" -> 2
      [] c = ".txt" -> 3
      [] c \in Digits -> 10 + DigitVal(c)
      [] c = "a" -> 30
      [] c = "s" -> 31
      [] OTHER -> 40

\* index of the last character of the digit run of s that starts at i
RECURSIVE RunEnd(_, _)
RunEnd(s, i) == IF i < Len(s) /\ s[i + 1] \in Digits THEN RunEnd(s, i + 1) ELSE i

\* numeric value of the digits s[i..j]
RECURSIVE RunValue(_, _, _)
RunValue(s, i, j) == IF j < i THEN 0 ELSE 10 * RunValue(s, i, j - 1) + DigitVal(s[j])

\* a.localeCompare(b, undefined, {numeric: true}) from positions i and j on: -1, 0 or 1
RECURSIVE NaturalFrom(_, _, _, _)
NaturalFrom(a, b, i, j) ==
    IF i > Len(a) /\ j > Len(b) THEN 0
    ELSE IF i > Len(a) THEN -1
    ELSE IF j > Len(b) THEN 1
    ELSE IF a[i] \in Digits /\ b[j] \in Digits
         THEN LET ia == RunEnd(a, i)
                  jb == RunEnd(b, j)
                  na == RunValue(a, i, ia)
                  nb == RunValue(b, j, jb)
              IN  IF na < nb THEN -1
                  ELSE IF na > nb THEN 1
                  ELSE NaturalFrom(a, b, ia + 1, jb + 1)
    ELSE IF CharRank(a[i]) < CharRank(b[j]) THEN -1
    ELSE IF CharRank(a[i]) > CharRank(b[j]) THEN 1
    ELSE NaturalFrom(a, b, i + 1, j + 1)

\* localeCompare without the numeric option: character by character
RECURSIVE PlainFrom(_, _, _)
PlainFrom(a, b, i) ==
    IF i > Len(a) /\ i > Len(b) THEN 0
    ELSE IF i > Len(a) THEN -1
    ELSE IF i > Len(b) THEN 1
    ELSE IF CharRank(a[i]) < CharRank(b[i]) THEN -1
    ELSE IF CharRank(a[i]) > CharRank(b[i]) THEN 1
    ELSE PlainFrom(a, b, i + 1)

LocaleComparePlain(a, b) == PlainFrom(a, b, 1)

LocaleCompareNumeric(a, b) == NaturalFrom(a, b, 1, 1)

(***************************************************************************)
(* The comparator handed to sort, on two File objects.  Its value is a     *)
(* JavaScript number and may be NaN.                                       *)
(***************************************************************************)
\* a.imagePosition?.[2]
PosZ(a) == IF a.imagePosition = <<>> THEN Undef ELSE a.imagePosition[3]

\* x ?? Infinity
OrInfinity(x) == IF x = Undef THEN PInf ELSE x

\* the comparator with a tie of two positions handed on to the lower rules
CompareFallThrough(a, b) ==
    LET aPosZ == PosZ(a)
        bPosZ == PosZ(b)
        aSlice == OrInfinity(a.sliceLocation)
        bSlice == OrInfinity(b.sliceLocation)
        aInst == OrInfinity(a.instanceNumber)
        bInst == OrInfinity(b.instanceNumber)
    IN  IF aPosZ # Undef /\ bPosZ # Undef /\ Sub(aPosZ, bPosZ) # Fin(0)
        THEN Sub(aPosZ, bPosZ)
        ELSE IF aPosZ # Undef /\ bPosZ = Undef THEN Fin(-1)
        ELSE IF bPosZ # Undef /\ aPosZ = Undef THEN Fin(1)
        ELSE IF aSlice # PInf /\ bSlice # PInf /\ Sub(aSlice, bSlice) # Fin(0)
        THEN Sub(aSlice, bSlice)
        ELSE IF aSlice # PInf /\ bSlice = PInf THEN Fin(-1)
        ELSE IF bSlice # PInf /\ aSlice = PInf THEN Fin(1)
        ELSE IF aInst # PInf /\ bInst # PInf /\ Sub(aInst, bInst) # Fin(0)
        THEN Sub(aInst, bInst)
        ELSE IF aInst # PInf /\ bInst = PInf THEN Fin(-1)
        ELSE IF bInst # PInf /\ aInst = PInf THEN Fin(1)
        ELSE Fin(LocaleCompareNumeric(a.name, b.name))

Compare(a, b) ==
    LET aPosZ == PosZ(a)
        bPosZ == PosZ(b)
        aSlice == OrInfinity(a.sliceLocation)
        bSlice == OrInfinity(b.sliceLocation)
        aInst == OrInfinity(a.instanceNumber)
        bInst == OrInfinity(b.instanceNumber)
    IN  IF aPosZ # Undef /\ bPosZ # Undef THEN Sub(aPosZ, bPosZ)
        ELSE IF aPosZ # Undef THEN Fin(-1)
        ELSE IF bPosZ # Undef THEN Fin(1)
        ELSE IF aSlice # PInf /\ bSlice # PInf THEN Sub(aSlice, bSlice)
        ELSE IF aSlice # PInf THEN Fin(-1)
        ELSE IF bSlice # PInf THEN Fin(1)
        ELSE IF aInst # PInf /\ bInst # PInf THEN Sub(aInst, bInst)
        ELSE IF aInst # PInf THEN Fin(-1)
        ELSE IF bInst # PInf THEN Fin(1)
        ELSE Fin(LocaleCompareNumeric(a.name, b.name))

(***************************************************************************)
(* Array.prototype.sort.  The sort reads the comparator's value v as +0    *)
(* when v is NaN, and places a before b when v < 0.  It is a stable         *)
(* insertion of the elements in input order into the sorted prefix; the    *)
(* place of an element is found by a search that narrows [lo, hi] on the   *)
(* outcome of comparing with a probed element.  Which element is probed is *)
(* left open (linear and binary insertion are two choices), so the result  *)
(* is a set of sequences: one sequence when the comparator is consistent,  *)
(* possibly several when it is not.                                        *)
(***************************************************************************)
CmpSign(a, b) == LET v == Compare(a, b) IN IF IsNaN(v) THEN 0 ELSE SignOf(v)

\* x written over the element at position k + 1 instead of in front of it
InsertOver(p, x, k) == SubSeq(p, 1, k) \o <<x>> \o SubSeq(p, k + 2, Len(p))

\* p with x placed after its first k elements
InsertAt(p, x, k) == SubSeq(p, 1, k) \o <<x>> \o SubSeq(p, k + 1, Len(p))

\* the numbers k of elements of p that x may be placed after
RECURSIVE InsertPositions(_, _, _, _)
InsertPositions(p, x, lo, hi) ==
    IF lo = hi THEN {lo}
    ELSE UNION {IF CmpSign(x, p[m + 1]) < 0
                THEN InsertPositions(p, x, lo, m)
                ELSE InsertPositions(p, x, m + 1, hi) : m \in lo..(hi - 1)}

RECURSIVE ArraySort(_)
ArraySort(s) ==
    IF s = <<>> THEN {<<>>}
    ELSE LET x == s[Len(s)]
         IN  UNION {{InsertAt(p, x, k) : k \in InsertPositions(p, x, 0, Len(p))} :
                        p \in ArraySort(SubSeq(s, 1, Len(s) - 1))}

(***************************************************************************)
(* Inputs of the model: the files a user can drop or pick.                 *)
(***************************************************************************)
NameS1 == <<"s", "1", ".dcm">>
NameS2 == <<"s", "2", ".dcm">>
NameS10 == <<"s", "1", "0", ".dcm">>
NameTxt == <<"s", "1", ".txt">>

\* a valid slice without optional tags; its two stored words are 0 and 500
BaseFile ==
    [name |-> NameS1, wellFormed |-> TRUE,
     hasPixelData |-> TRUE, hasRows |-> TRUE, hasColumns |-> TRUE,
     rows |-> 1, columns |-> 2,
     ipp |-> <<>>, sl |-> NoTag, inst |-> NoTag, slope |-> NoTag, intercept |-> NoTag,
     dataOffset |-> 0, pixelLength |-> 4, words |-> <<0, 500>>, allocFails |-> FALSE]

\* a valid slice with the given name and ordering tags
SliceFile(n, p, s, i) == [BaseFile EXCEPT !.name = n, !.ipp = p, !.sl = s, !.inst = i]

\* image position texts: z = 1, z = 2, a z that is not a number
Ipp1 == <<"0", "0", "1">>
Ipp2 == <<"0", "0", "2">>
IppBad == <<"0", "0", "abc">>

\* files of the pipeline specification: valid, rejected in each way, not a .dcm
PipelineFiles ==
    { BaseFile,
      [BaseFile EXCEPT !.name = NameS10, !.inst = "1"],
      [BaseFile EXCEPT !.wellFormed = FALSE],
      [BaseFile EXCEPT !.hasPixelData = FALSE, !.ipp = Ipp1, !.sl = "1", !.inst = "1"],
      [BaseFile EXCEPT !.hasRows = FALSE, !.name = NameS2],
      [BaseFile EXCEPT !.hasColumns = FALSE, !.slope = "2"],
      [BaseFile EXCEPT !.dataOffset = 1, !.sl = "1"],
      [BaseFile EXCEPT !.name = NameTxt] }

\* longest batch of a specification
MaxFiles == 3

\* every sequence over S of length 1..n
SeqsUpTo(S, n) == UNION {[1..k -> S] : k \in 1..n}

(***************************************************************************)
(* State.                                                                  *)
(*   selectedFiles  useState: the files last selected                      *)
(*   runs           the invocations of processDICOMFiles so far: the files *)
(*                  each was called with, the state of each decode task,   *)
(*                  and once it has ended the array it passed to           *)
(*                  setSortedFiles and the count of its warning toast      *)
(*   sortedFiles    useState: the published ordered list                   *)
(*   toasts         the toast of each kind shown last                      *)
(* Upload preview:                                                         *)
(*   currentIndex   useState: index of the slice shown                     *)
(*   isPlaying      useState: playback is on                               *)
(*   showPreview    useState: the preview section is shown                 *)
(*   playInterval   playIntervalRef: 0 when no interval runs, else the     *)
(*                  sortedFiles.length its callback closed over            *)
(* Result viewer:                                                          *)
(*   isExporting    useState: an export is marked as running               *)
(*   renderedExporting  the isExporting of the last render, which the      *)
(*                  button and the click handler see                       *)
(*   exports        the invocations of handleExportAll so far              *)
(***************************************************************************)
VARIABLES selectedFiles, runs, sortedFiles, toasts,
          currentIndex, isPlaying, showPreview, playInterval,
          isExporting, renderedExporting, exports

previewVars == <<currentIndex, isPlaying, showPreview, playInterval>>

exportVars == <<isExporting, renderedExporting, exports>>

vars == <<selectedFiles, runs, sortedFiles, toasts, previewVars, exportVars>>

NoToast == [kind |-> "none", text |-> "", count |-> 0]

Init ==
    /\ selectedFiles = <<>>
    /\ runs = <<>>
    /\ sortedFiles = <<>>
    /\ toasts = NoToast
    /\ currentIndex = 0
    /\ isPlaying = FALSE
    /\ showPreview = FALSE
    /\ playInterval = 0
    /\ isExporting = FALSE
    /\ renderedExporting = FALSE
    /\ exports = <<>>

\* files.filter(file => file.name.toLowerCase().endsWith(".dcm"))
IsDcm(f) == f.name[Len(f.name)] \in {".dcm", ".DCM"}

FilterDcm(fs) == SelectSeq(fs, IsDcm)

\* a task that has not settled yet
Pending(f, i) == [state |-> "pending", ok |-> FALSE, obj |-> FreshObj(f, i)]

\* useEffect on selectedFiles: processDICOMFiles(selectedFiles) up to the first await
StartRun(files) ==
    [files |-> files,
     tasks |-> [i \in 1..Len(files) |-> Pending(files[i], i)],
     status |-> "decoding", sorted |-> <<>>, warned |-> 0]

\* setSelectedFiles(files) and the effect it triggers, or the error toast
SelectFiles(dropped, message) ==
    LET files == FilterDcm(dropped)
    IN  IF Len(files) > 0
        THEN /\ selectedFiles' = files
             /\ runs' = Append(runs, StartRun(files))
             /\ UNCHANGED <<sortedFiles, toasts, previewVars, exportVars>>
        ELSE /\ toasts' = [kind |-> "error", text |-> message, count |-> 0]
             /\ UNCHANGED <<selectedFiles, runs, sortedFiles, previewVars, exportVars>>

\* handleDrop over the batches of B, while fewer than limit invocations were started
HandleDrop(B, limit) ==
    /\ Len(runs) < limit
    /\ \E dropped \in B : SelectFiles(dropped, "No DICOM files found in dragged content")

\* handleFileChange over the batches of B (an empty FileList changes nothing)
HandleFileChange(B, limit) ==
    /\ Len(runs) < limit
    /\ \E picked \in B : SelectFiles(picked, "No DICOM files selected")

\* a decode task that appends its result to an array shared by the tasks of
\* its invocation, so that results are held in completion order
DecodeTaskPush ==
    \E r \in 1..Len(runs) : \E i \in 1..Len(runs[r].files) :
        LET done == {k \in 1..Len(runs[r].tasks) : runs[r].tasks[k].state = "settled"}
            d == Decode(runs[r].files[i], i)
        IN  /\ runs[r].status = "decoding"
            /\ \A k \in done : runs[r].tasks[k].obj.idx # i
            /\ runs' = [runs EXCEPT ![r].tasks[Cardinality(done) + 1] =
                             [state |-> "settled", ok |-> d.ok, obj |-> d.obj]]
            /\ UNCHANGED <<selectedFiles, sortedFiles, toasts, previewVars, exportVars>>

\* one decode task of run r settles
DecodeTask ==
    \E r \in 1..Len(runs) : \E i \in 1..Len(runs[r].files) :
        /\ runs[r].status = "decoding"
        /\ runs[r].tasks[i].state = "pending"
        /\ LET d == Decode(runs[r].files[i], i)
           IN  runs' = [runs EXCEPT ![r].tasks[i] =
                            [state |-> "settled", ok |-> d.ok, obj |-> d.obj]]
        /\ UNCHANGED <<selectedFiles, sortedFiles, toasts, previewVars, exportVars>>

\* a batch that yields nothing as soon as one of its tasks has failed
ValidFilesAllOrNothing(tasks) ==
    IF \E i \in 1..Len(tasks) : ~tasks[i].ok THEN <<>>
    ELSE [i \in 1..Len(tasks) |-> tasks[i].obj]

\* processedFiles.filter(Boolean): the File objects of the tasks that returned one
RECURSIVE ValidFiles(_)
ValidFiles(tasks) ==
    IF tasks = <<>> THEN <<>>
    ELSE LET rest == ValidFiles(SubSeq(tasks, 1, Len(tasks) - 1))
             t == tasks[Len(tasks)]
         IN  IF t.ok THEN Append(rest, t.obj) ELSE rest

\* the count of the warning toast with its operands exchanged
WarnCountSwapped(files, sorted) == Len(sorted) - Len(files)

\* files.length - sorted.length
WarnCount(files, sorted) == Len(files) - Len(sorted)

\* a barrier that opens as soon as one task has settled
AnySettled(run) == \E i \in 1..Len(run.tasks) : run.tasks[i].state = "settled"

\* await Promise.all(...): every task of the invocation has returned
AllSettled(run) == \A i \in 1..Len(run.tasks) : run.tasks[i].state = "settled"

\* the code after await Promise.all: filter, sort, setSortedFiles, warning toast
FinishRun ==
    \E r \in 1..Len(runs) :
        /\ runs[r].status = "decoding"
        /\ AllSettled(runs[r])
        /\ \E sorted \in ArraySort(ValidFiles(runs[r].tasks)) :
            LET n == WarnCount(runs[r].files, sorted)
            IN  /\ sortedFiles' = sorted
                /\ runs' = [runs EXCEPT ![r].status = "published",
                                        ![r].sorted = sorted, ![r].warned = n]
                /\ toasts' = IF n # 0
                             THEN [kind |-> "warning",
                                   text |-> "invalid/malformed DICOM files filtered",
                                   count |-> n]
                             ELSE toasts
        /\ UNCHANGED <<selectedFiles, previewVars, exportVars>>

PipelineBatches == SeqsUpTo(PipelineFiles, MaxFiles)

\* the page processes one selection drawn from PipelineBatches
Next ==
    \/ HandleDrop(PipelineBatches, 1)
    \/ HandleFileChange(PipelineBatches, 1)
    \/ DecodeTask
    \/ FinishRun

Spec == Init /\ [][Next]_vars

(***************************************************************************)
(* Properties of the pipeline (specification Spec).                        *)
(***************************************************************************)
RunIds == 1..Len(runs)

TaskIds(r) == 1..Len(runs[r].files)

Published(r) == runs[r].status = "published"

\* the input positions of the slices run r published
PublishedIdx(r) == {runs[r].sorted[k].idx : k \in 1..Len(runs[r].sorted)}

\* C1: a file that lacks the pixel-data, rows or columns element is rejected:
\* its task returns null, leaves the File without any decoded field, and no
\* slice of that file is in the array the invocation publishes.
C1_MissingTagRejected ==
    \A r \in RunIds : \A i \in TaskIds(r) :
        (~(runs[r].files[i].hasPixelData /\ runs[r].files[i].hasRows
              /\ runs[r].files[i].hasColumns)
         /\ runs[r].tasks[i].state = "settled")
        => /\ ~runs[r].tasks[i].ok
           /\ runs[r].tasks[i].obj = FreshObj(runs[r].files[i], i)
           /\ (Published(r) => i \notin PublishedIdx(r))

\* a published batch with a valid file, one without pixel data and one without columns
C1_Witness ==
    \E r \in RunIds :
        /\ Published(r)
        /\ Len(runs[r].sorted) = 1
        /\ \E i \in TaskIds(r) : ~runs[r].files[i].hasPixelData
        /\ \E i \in TaskIds(r) : ~runs[r].files[i].hasColumns

\* the tasks of run r that returned null
RejectedTasks(r) == {i \in TaskIds(r) : ~runs[r].tasks[i].ok}

\* C4: when a batch completes, the slices it publishes plus the count it reports as
\* filtered add up to the files of the batch, and the count is shown in a warning
\* toast exactly when it is not zero.
C4_CountConservation ==
    \A r \in RunIds :
        Published(r) =>
            /\ Len(runs[r].sorted) + runs[r].warned = Len(runs[r].files)
            /\ runs[r].warned = Cardinality(RejectedTasks(r))
            /\ runs[r].warned >= 0
            /\ sortedFiles = runs[r].sorted
            /\ (runs[r].warned # 0 =>
                    toasts.kind = "warning" /\ toasts.count = runs[r].warned)

\* a completed batch of three files, one published and two filtered
C4_Witness ==
    \E r \in RunIds :
        /\ Published(r)
        /\ Len(runs[r].files) = 3
        /\ Len(sortedFiles) = 1
        /\ toasts.kind = "warning" /\ toasts.count = 2

(***************************************************************************)
(* Specification SpecOrder: one selection of valid slices that differ in   *)
(* their ordering tags and names.                                          *)
(***************************************************************************)
OrderFiles ==
    { SliceFile(NameS1, Ipp1, "2", NoTag),
      SliceFile(NameS2, Ipp1, "1", NoTag),
      SliceFile(NameS1, <<>>, "1", NoTag),
      SliceFile(NameS2, <<>>, "2", "1"),
      SliceFile(NameS1, <<>>, "Infinity", NoTag),
      SliceFile(NameS1, <<>>, "abc", NoTag),
      SliceFile(NameS2, <<>>, NoTag, "1"),
      SliceFile(NameS1, <<>>, NoTag, "2"),
      SliceFile(NameS1, <<>>, NoTag, NoTag),
      SliceFile(NameS2, <<>>, NoTag, NoTag),
      SliceFile(NameS10, <<>>, NoTag, NoTag) }

\* longest batch of SpecOrder
MaxOrderFiles == 3

OrderBatches == SeqsUpTo(OrderFiles, MaxOrderFiles)

NextOrder ==
    \/ HandleDrop(OrderBatches, 1)
    \/ HandleFileChange(OrderBatches, 1)
    \/ DecodeTask
    \/ FinishRun

SpecOrder == Init /\ [][NextOrder]_vars

(***************************************************************************)
(* Specification SpecStable: one selection of up to four slices ordered by *)
(* image position alone.                                                   *)
(***************************************************************************)
StableFiles ==
    { SliceFile(NameS1, Ipp1, NoTag, NoTag),
      SliceFile(NameS1, Ipp2, NoTag, NoTag),
      SliceFile(NameS1, IppBad, NoTag, NoTag),
      SliceFile(NameS1, <<>>, NoTag, "1") }

\* longest batch of SpecStable
MaxStableFiles == 4

StableBatches == SeqsUpTo(StableFiles, MaxStableFiles)

NextStable ==
    \/ HandleDrop(StableBatches, 1)
    \/ HandleFileChange(StableBatches, 1)
    \/ DecodeTask
    \/ FinishRun

SpecStable == Init /\ [][NextStable]_vars

(***************************************************************************)
(* Properties of the ordered output.                                       *)
(***************************************************************************)
\* the ordering fields a decoded slice has
HasPosition(x) == x.imagePosition # <<>>
HasLocation(x) == x.sliceLocation # Undef
HasInstance(x) == x.instanceNumber # Undef

\* rank of the highest-priority ordering field a slice has: 1 position, 2 location,
\* 3 instance number, 4 none
Tier(x) ==
    IF HasPosition(x) THEN 1
    ELSE IF HasLocation(x) THEN 2
    ELSE IF HasInstance(x) THEN 3
    ELSE 4

\* the value of the field that gives a slice its tier (tiers 1 to 3)
TierKey(x) ==
    IF HasPosition(x) THEN x.imagePosition[3]
    ELSE IF HasLocation(x) THEN x.sliceLocation
    ELSE x.instanceNumber

\* positions k < l of the array run r published
PublishedPairs(r) ==
    {<<k, l>> \in (1..Len(runs[r].sorted)) \X (1..Len(runs[r].sorted)) : k < l}

\* C5: a slice whose highest-priority ordering field outranks that of another slice
\* of the batch comes before it in the published order.
C5_TierPriority ==
    \A r \in RunIds : Published(r) =>
        \A k \in 1..Len(runs[r].sorted) : \A l \in 1..Len(runs[r].sorted) :
            Tier(runs[r].sorted[k]) < Tier(runs[r].sorted[l]) => k < l

\* C6: two published slices of the same tier whose keys are numbers in descending
\* order never appear in that order (the smaller key comes first).
C6_AscendingWithinTier ==
    \A r \in RunIds : Published(r) =>
        \A pr \in PublishedPairs(r) :
            LET a == runs[r].sorted[pr[1]]
                b == runs[r].sorted[pr[2]]
            IN  (Tier(a) = Tier(b) /\ Tier(a) < 4
                 /\ ~IsNaN(TierKey(a)) /\ ~IsNaN(TierKey(b)))
                => ~Less(TierKey(b), TierKey(a))

\* the number written in a name of the form s<digits>.<extension>
EmbeddedNumber(n) == RunValue(n, 2, Len(n) - 1)

\* C7: published slices without any ordering field are among themselves in the order
\* of the numbers embedded in their names (s1, s2, s10).
C7_NaturalNameOrder ==
    \A r \in RunIds : Published(r) =>
        \A pr \in PublishedPairs(r) :
            LET a == runs[r].sorted[pr[1]]
                b == runs[r].sorted[pr[2]]
            IN  (Tier(a) = 4 /\ Tier(b) = 4)
                => EmbeddedNumber(a.name) <= EmbeddedNumber(b.name)

\* the files s2, s10, s1 without ordering fields were published as s1, s2, s10
C7_Witness ==
    \E r \in RunIds :
        /\ Published(r)
        /\ [i \in 1..Len(runs[r].files) |-> runs[r].files[i].name]
               = <<NameS2, NameS10, NameS1>>
        /\ \A i \in TaskIds(r) : runs[r].tasks[i].ok /\ Tier(runs[r].tasks[i].obj) = 4
        /\ [k \in 1..Len(sortedFiles) |-> sortedFiles[k].name]
               = <<NameS1, NameS2, NameS10>>

\* two slices of the same tier whose keys are the same number
SameKey(a, b) ==
    /\ Tier(a) = Tier(b)
    /\ Tier(a) < 4
    /\ ~IsNaN(TierKey(a))
    /\ TierKey(a) = TierKey(b)

LowerRules(a, b) ==
    IF HasLocation(a) /\ HasLocation(b) /\ a.sliceLocation # b.sliceLocation
    THEN (IF Less(a.sliceLocation, b.sliceLocation) THEN -1 ELSE 1)
    ELSE IF HasLocation(a) /\ ~HasLocation(b) THEN -1
    ELSE IF HasLocation(b) /\ ~HasLocation(a) THEN 1
    ELSE IF HasInstance(a) /\ HasInstance(b) /\ a.instanceNumber # b.instanceNumber
    THEN (IF Less(a.instanceNumber, b.instanceNumber) THEN -1 ELSE 1)
    ELSE IF HasInstance(a) /\ ~HasInstance(b) THEN -1
    ELSE IF HasInstance(b) /\ ~HasInstance(a) THEN 1
    ELSE IF EmbeddedNumber(a.name) < EmbeddedNumber(b.name) THEN -1
    ELSE IF EmbeddedNumber(a.name) > EmbeddedNumber(b.name) THEN 1
    ELSE 0

\* two slices that both have an image position with the same finite z
PositionTie(a, b) ==
    /\ HasPosition(a) /\ HasPosition(b)
    /\ IsFin(a.imagePosition[3])
    /\ a.imagePosition[3] = b.imagePosition[3]

\* the lower fields of a and b are absent or finite numbers
PlainLowerFields(x) ==
    /\ (HasLocation(x) => IsFin(x.sliceLocation))
    /\ (HasInstance(x) => IsFin(x.instanceNumber))

\* C9 as claimed: two published slices tied on the image position are in the order
\* the lower rules give (slice location, then instance number, then name).
C9_TiesFallThrough ==
    \A r \in RunIds : Published(r) =>
        \A pr \in PublishedPairs(r) :
            LET a == runs[r].sorted[pr[1]]
                b == runs[r].sorted[pr[2]]
            IN  (PositionTie(a, b) /\ PlainLowerFields(a) /\ PlainLowerFields(b))
                => LowerRules(a, b) <= 0

\* the decoded File objects of run r
DecodedObjs(r) ==
    {runs[r].tasks[i].obj : i \in {j \in TaskIds(r) : runs[r].tasks[j].ok}}

\* C9 as amended: when both slices have the deciding field with the same finite
\* value the comparator returns 0 without consulting a lower rule, and a batch of
\* just these two slices is published in input order.
C9_TieEndsComparison ==
    \A r \in RunIds :
        /\ \A a \in DecodedObjs(r) : \A b \in DecodedObjs(r) :
               SameKey(a, b) => Compare(a, b) = Fin(0)
        /\ (Published(r) /\ Len(runs[r].sorted) = 2
                /\ SameKey(runs[r].sorted[1], runs[r].sorted[2]))
           => runs[r].sorted[1].idx < runs[r].sorted[2].idx

\* two slices with z = 1 were published in input order, slice location 2 before 1
C9_Witness ==
    \E r \in RunIds :
        /\ Published(r)
        /\ Len(sortedFiles) = 2
        /\ PositionTie(sortedFiles[1], sortedFiles[2])
        /\ sortedFiles[1].idx = 1
        /\ sortedFiles[1].sliceLocation = Fin(2)
        /\ sortedFiles[2].sliceLocation = Fin(1)

\* C10: the comparator, read as the sort reads it (NaN counts as 0), is a
\* consistent ordering of the decoded slices of a batch: transitive, and of
\* opposite sign when its arguments are exchanged.
C10_ConsistentComparator ==
    \A r \in RunIds :
        \A a \in DecodedObjs(r) : \A b \in DecodedObjs(r) :
            /\ CmpSign(a, b) = 0 - CmpSign(b, a)
            /\ \A c \in DecodedObjs(r) :
                   (CmpSign(a, b) <= 0 /\ CmpSign(b, c) <= 0) => CmpSign(a, c) <= 0

(***************************************************************************)
(* Specification SpecPixels: one selected file whose pixel data, rescale   *)
(* tags, rows and columns vary.                                            *)
(***************************************************************************)
\* stored 16-bit words: 0, 500, 32767, -32768 and -1 as Int16
RawWords == {0, 500, 32767, 32768, 65535}

\* largest byte length of a pixel data element
MaxPixelBytes == 4

\* largest value of the rows and of the columns element
MaxDim == 2

SlopeTexts == {NoTag, "", "2", "-1", "Infinity", "abc"}
InterceptTexts == {NoTag, "-2000", "Infinity", "-Infinity", "abc"}

\* the valid slices with a pixel element of at most maxBytes bytes and rows and
\* columns up to maxDim
PixelFiles(maxBytes, maxDim) ==
    UNION {{[BaseFile EXCEPT !.pixelLength = n, !.words = w, !.slope = sl,
                              !.intercept = ic, !.rows = rw, !.columns = cl] :
                w \in [1..(n \div 2) -> RawWords],
                sl \in SlopeTexts, ic \in InterceptTexts,
                rw \in 1..maxDim, cl \in 1..maxDim} :
           n \in 0..maxBytes}

PixelBatches(maxBytes, maxDim) == {<<f>> : f \in PixelFiles(maxBytes, maxDim)}

NextPixels ==
    \/ HandleDrop(PixelBatches(MaxPixelBytes, MaxDim), 1)
    \/ HandleFileChange(PixelBatches(MaxPixelBytes, MaxDim), 1)
    \/ DecodeTask
    \/ FinishRun

SpecPixels == Init /\ [][NextPixels]_vars

\* C2: every normalized pixel of a decoded slice is a number in [-1000, 3000].
C2_PixelsInRange ==
    \A r \in RunIds : \A a \in DecodedObjs(r) :
        \A j \in 1..Len(a.pixelData) :
            /\ IsFin(a.pixelData[j])
            /\ -1000 <= a.pixelData[j].v
            /\ a.pixelData[j].v <= 3000

\* C3: a decoded slice has rows * columns normalized pixels.
C3_PixelCountIsRowsTimesColumns ==
    \A r \in RunIds : \A i \in TaskIds(r) :
        runs[r].tasks[i].ok =>
            Len(runs[r].tasks[i].obj.pixelData)
                = runs[r].files[i].rows * runs[r].files[i].columns

C12_SortAfterAllDecoded ==
    \A r \in RunIds :
        /\ runs[r].status = "decoding" => runs[r].sorted = <<>>
        /\ (\E i \in TaskIds(r) : runs[r].tasks[i].state = "pending") =>
               /\ ~Published(r)
               /\ Len(runs) = 1 => sortedFiles = <<>>

\* a batch of three was published after all three tasks settled, one of them rejected
C12_Witness ==
    \E r \in RunIds :
        /\ Published(r)
        /\ Len(runs[r].files) = 3
        /\ \A i \in TaskIds(r) : runs[r].tasks[i].state = "settled"
        /\ Len(runs[r].sorted) = 2
        /\ sortedFiles = runs[r].sorted

\* a file that parses, carries the three mandatory elements, whose pixel
\* element starts where a 16-bit view can be laid over it, and for whose
\* pixels a buffer is available
DecodableInput(f) ==
    /\ f.wellFormed
    /\ f.hasPixelData /\ f.hasRows /\ f.hasColumns
    /\ f.dataOffset % 2 = 0
    /\ ~f.allocFails

\* C13: a file whose decode fails is the only one rejected: the batch is still
\* published, and it holds exactly the files that decode, whatever else failed.
C13_FailureIsLocal ==
    \A r \in RunIds :
        /\ Published(r) =>
               PublishedIdx(r) = {i \in TaskIds(r) : DecodableInput(runs[r].files[i])}
        /\ ( /\ runs[r].status = "decoding"
             /\ \A i \in TaskIds(r) : runs[r].tasks[i].state = "settled"
             /\ \E i \in TaskIds(r) : ~runs[r].tasks[i].ok ) => ENABLED FinishRun

\* a file that does not parse and one whose pixel view throws were rejected and
\* the third file of the batch was published
C13_Witness ==
    \E r \in RunIds :
        /\ Published(r)
        /\ \E i \in TaskIds(r) : ~runs[r].files[i].wellFormed
        /\ \E i \in TaskIds(r) : runs[r].files[i].wellFormed /\ runs[r].files[i].dataOffset % 2 = 1
        /\ Len(runs[r].sorted) = 1
        /\ runs[r].warned = 2

\* C14: a slice whose slice-location text is present but is not a number
\* decodes with no sliceLocation, like a slice that has no such tag.
C14_UnparsableLocationAbsent ==
    \A r \in RunIds : \A i \in TaskIds(r) :
        (runs[r].tasks[i].ok /\ runs[r].files[i].sl = "abc") =>
            runs[r].tasks[i].obj.sliceLocation = Undef

\* the image-position text has exactly three components and each is a number
ThreeNumbers(ipp) == Len(ipp) = 3 /\ \A j \in 1..3 : ~IsNaN(ParseFloat(ipp[j]))

\* C15: a decoded slice has an image position exactly when its position text has
\* three components that are all numbers, and its z is then the third of them.
C15_PositionIffThreeNumbers ==
    \A r \in RunIds : \A i \in TaskIds(r) :
        runs[r].tasks[i].ok =>
            /\ HasPosition(runs[r].tasks[i].obj) <=> ThreeNumbers(runs[r].files[i].ipp)
            /\ HasPosition(runs[r].tasks[i].obj) =>
                   PosZ(runs[r].tasks[i].obj) = ParseFloat(runs[r].files[i].ipp[3])

(***************************************************************************)
(* Rescale defaults and the pixel transform.                               *)
(***************************************************************************)
\* a rescale text that is missing, empty or not a number
NoNumberText(t) == t \in {NoTag, "", "abc"}

\* the stored word read as a two's-complement 16-bit integer
SignedWord(w) == IF w >= 32768 THEN w - 65536 ELSE w

\* an integer limited to the HU window
ClampInt(v) == IF v < -1000 THEN -1000 ELSE IF v > 3000 THEN 3000 ELSE v

\* C16: a slice whose rescale slope text is missing or not a number decodes
\* with slope 1, likewise intercept 0, and with both defaulted its normalized
\* pixels are the stored values limited to [-1000, 3000].
C16_RescaleDefaults ==
    \A r \in RunIds : \A i \in TaskIds(r) :
        LET f == runs[r].files[i]
            a == runs[r].tasks[i].obj
        IN  runs[r].tasks[i].ok =>
                /\ NoNumberText(f.slope) => a.rescaleSlope = Fin(1)
                /\ NoNumberText(f.intercept) => a.rescaleIntercept = Fin(0)
                /\ (NoNumberText(f.slope) /\ NoNumberText(f.intercept)) =>
                       /\ Len(a.pixelData) = f.pixelLength \div 2
                       /\ \A j \in 1..Len(a.pixelData) :
                              a.pixelData[j] = Fin(ClampInt(SignedWord(f.words[j])))

\* a slice with slope text "abc" and no intercept tag was decoded; its stored
\* values 32767 and -32768 became 3000 and -1000
C16_Witness ==
    \E r \in RunIds : \E i \in TaskIds(r) :
        /\ runs[r].tasks[i].ok
        /\ runs[r].files[i].slope = "abc"
        /\ runs[r].files[i].intercept = NoTag
        /\ runs[r].files[i].words = <<32767, 32768>>
        /\ runs[r].tasks[i].obj.pixelData = <<Fin(3000), Fin(-1000)>>

\* value * slope + intercept limited to the HU window, for an integer value
ExpectedHU(v, slope, intercept) ==
    IF IsFin(slope) /\ IsFin(intercept)
    THEN Fin(ClampInt(v * slope.v + intercept.v))
    ELSE ClampHU(Add(Mul(Fin(v), slope), intercept))

\* C17: normalized pixel j of a decoded slice is the j-th stored signed value
\* times the slice's slope plus its intercept, limited to [-1000, 3000]; there
\* is one normalized pixel per stored value, in the stored order.
C17_PixelTransform ==
    \A r \in RunIds : \A i \in TaskIds(r) :
        LET f == runs[r].files[i]
            a == runs[r].tasks[i].obj
        IN  runs[r].tasks[i].ok =>
                /\ Len(a.pixelData) = f.pixelLength \div 2
                /\ \A j \in 1..Len(a.pixelData) :
                       a.pixelData[j] =
                           ExpectedHU(SignedWord(f.words[j]), a.rescaleSlope, a.rescaleIntercept)

\* a slice with slope -1 and no intercept was decoded; its stored values 500 and
\* -32768 became -500 and 3000, in that order
C17_Witness ==
    \E r \in RunIds : \E i \in TaskIds(r) :
        /\ runs[r].tasks[i].ok
        /\ runs[r].tasks[i].obj.rescaleSlope = Fin(-1)
        /\ runs[r].tasks[i].obj.rescaleIntercept = Fin(0)
        /\ runs[r].files[i].words = <<500, 32768>>
        /\ runs[r].tasks[i].obj.pixelData = <<Fin(-500), Fin(3000)>>

(***************************************************************************)
(* Frame of the ordering step.                                             *)
(***************************************************************************)
\* C18: the step that orders a batch leaves every decoded record as it was, and
\* the array it publishes holds each valid record exactly once and nothing else.
C18_OrderingReadOnly ==
    [][\A r \in RunIds :
          (runs[r].status = "decoding" /\ runs'[r].status = "published") =>
              /\ runs'[r].tasks = runs[r].tasks
              /\ runs'[r].files = runs[r].files
              /\ Len(runs'[r].sorted) = Cardinality({i \in TaskIds(r) : runs[r].tasks[i].ok})
              /\ {runs'[r].sorted[k].idx : k \in 1..Len(runs'[r].sorted)}
                     = {i \in TaskIds(r) : runs[r].tasks[i].ok}
              /\ \A k \in 1..Len(runs'[r].sorted) :
                     runs'[r].sorted[k] = runs[r].tasks[runs'[r].sorted[k].idx].obj
              /\ sortedFiles' = runs'[r].sorted]_vars

\* three valid slices were published in an order other than their input order
C18_Witness ==
    \E r \in RunIds :
        /\ Published(r)
        /\ Len(runs[r].sorted) = 3
        /\ runs[r].sorted[1].idx = 3
        /\ \A i \in TaskIds(r) : runs[r].tasks[i].ok
        /\ sortedFiles = runs[r].sorted

(***************************************************************************)
(* Independence of the decode tasks.                                       *)
(***************************************************************************)
\* C19: whatever the order in which the decode tasks of a batch settle, each
\* task's result is the decode of its own file alone, and the published order
\* and the rejected count are those of the batch: the order is a sort of the
\* decodable files taken in input order, the count is the number of the others.
C19_InterleavingIndependent ==
    \A r \in RunIds :
        /\ \A i \in TaskIds(r) :
               runs[r].tasks[i].state = "settled" =>
                   /\ runs[r].tasks[i].ok = Decode(runs[r].files[i], i).ok
                   /\ runs[r].tasks[i].obj = Decode(runs[r].files[i], i).obj
        /\ Published(r) =>
               /\ runs[r].sorted \in
                      ArraySort(ValidFiles([i \in TaskIds(r) |->
                          [state |-> "settled",
                           ok |-> Decode(runs[r].files[i], i).ok,
                           obj |-> Decode(runs[r].files[i], i).obj]]))
               /\ runs[r].warned =
                      Cardinality({i \in TaskIds(r) : ~DecodableInput(runs[r].files[i])})

\* a batch whose first file is rejected and whose other two are published in
\* the reverse of their input order
C19_Witness ==
    \E r \in RunIds :
        /\ Published(r)
        /\ Len(runs[r].files) = 3
        /\ ~runs[r].tasks[1].ok
        /\ Len(runs[r].sorted) = 2
        /\ runs[r].sorted[1].idx = 3
        /\ runs[r].sorted[2].idx = 2
        /\ runs[r].warned = 1

(***************************************************************************)
(* Allocation failure: batches in which the buffer of one slice cannot be  *)
(* allocated.                                                              *)
(***************************************************************************)
SystemicFiles ==
    { BaseFile,
      [BaseFile EXCEPT !.name = NameS2, !.inst = "1"],
      [BaseFile EXCEPT !.name = NameS10, !.allocFails = TRUE],
      [BaseFile EXCEPT !.hasRows = FALSE] }

\* longest batch of the allocation-failure specification
MaxSystemicFiles == 3

SystemicBatches == SeqsUpTo(SystemicFiles, MaxSystemicFiles)

NextSystemic ==
    \/ HandleDrop(SystemicBatches, 1)
    \/ HandleFileChange(SystemicBatches, 1)
    \/ DecodeTask
    \/ FinishRun

SpecSystemic == Init /\ [][NextSystemic]_vars

\* C20: a batch in which the pixel buffer of a slice could not be allocated
\* publishes no ordered output and does not count that slice as rejected.
C20_SystemicFailureFailsBatch ==
    \A r \in RunIds :
        (\E i \in TaskIds(r) : runs[r].tasks[i].state = "settled"
                                 /\ HasMandatoryTags(runs[r].files[i])
                                 /\ runs[r].files[i].allocFails) =>
            /\ ~Published(r)
            /\ runs[r].sorted = <<>>
            /\ runs[r].warned = 0
            /\ toasts.kind # "warning"

(***************************************************************************)
(* Two selections: a second batch may be dropped or picked while the tasks *)
(* of the first are still running; nothing cancels the first invocation.   *)
(***************************************************************************)
OverlapFiles ==
    { BaseFile,
      [BaseFile EXCEPT !.name = NameS10, !.inst = "1"],
      [BaseFile EXCEPT !.name = NameS2, !.hasRows = FALSE] }

\* longest batch of the two-selection specification
MaxOverlapFiles == 2

OverlapBatches == SeqsUpTo(OverlapFiles, MaxOverlapFiles)

NextOverlap ==
    \/ HandleDrop(OverlapBatches, 2)
    \/ HandleFileChange(OverlapBatches, 2)
    \/ DecodeTask
    \/ FinishRun

SpecOverlap == Init /\ [][NextOverlap]_vars

\* C21: once two batches have both been processed, the published list is the
\* ordering of the batch selected last.
C21_LatestBatchPublished ==
    (Len(runs) = 2 /\ Published(1) /\ Published(2)) =>
        /\ selectedFiles = runs[2].files
        /\ sortedFiles = runs[2].sorted

(***************************************************************************)
(* Upload preview: the preview toggle, the thumbnails, play/pause and the  *)
(* interval callback.  Each control exists only while it is rendered.      *)
(***************************************************************************)
\* the preview section and its controls are rendered
PreviewShown == showPreview /\ Len(sortedFiles) > 0

\* onClick of the Show/Hide Preview button, rendered while sortedFiles is non-empty
TogglePreview ==
    /\ Len(sortedFiles) > 0
    /\ showPreview' = ~showPreview
    /\ UNCHANGED <<selectedFiles, runs, sortedFiles, toasts,
                   currentIndex, isPlaying, playInterval, exportVars>>

\* onClick of the thumbnail of sortedFiles[index]
ThumbnailClick ==
    /\ PreviewShown
    /\ \E index \in 0..(Len(sortedFiles) - 1) : currentIndex' = index
    /\ UNCHANGED <<selectedFiles, runs, sortedFiles, toasts,
                   isPlaying, showPreview, playInterval, exportVars>>

\* handlePlayPause: start an interval over the sortedFiles.length of this
\* render, or clear the running one
HandlePlayPause ==
    /\ PreviewShown
    /\ playInterval' = IF ~isPlaying THEN Len(sortedFiles) ELSE 0
    /\ isPlaying' = ~isPlaying
    /\ UNCHANGED <<selectedFiles, runs, sortedFiles, toasts,
                   currentIndex, showPreview, exportVars>>

\* the interval callback: setCurrentIndex(prev => (prev + 1) % sortedFiles.length)
PlaybackTick ==
    /\ playInterval > 0
    /\ currentIndex' = (currentIndex + 1) % playInterval
    /\ UNCHANGED <<selectedFiles, runs, sortedFiles, toasts,
                   isPlaying, showPreview, playInterval, exportVars>>

PreviewFiles ==
    { BaseFile,
      [BaseFile EXCEPT !.name = NameS10, !.inst = "1"] }

\* longest batch of the preview specification
MaxPreviewFiles == 2

PreviewBatches == SeqsUpTo(PreviewFiles, MaxPreviewFiles)

\* two selections, one after the other or overlapping, and the preview controls
NextPreview ==
    \/ HandleDrop(PreviewBatches, 2)
    \/ HandleFileChange(PreviewBatches, 2)
    \/ DecodeTask
    \/ FinishRun
    \/ TogglePreview
    \/ ThumbnailClick
    \/ HandlePlayPause
    \/ PlaybackTick

SpecPreview == Init /\ [][NextPreview]_vars

\* C22: whenever the published list is non-empty the displayed index is one of
\* its indexes.
C22_IndexInRange ==
    Len(sortedFiles) > 0 => (0 <= currentIndex /\ currentIndex < Len(sortedFiles))

(***************************************************************************)
(* Result viewer (ResultContent): Export All.  One mounted viewer showing  *)
(* ResultFileCount returned files.  An invocation of handleExportAll is    *)
(* [phase, result, tasks]: it awaits the import of the zip library, then   *)
(* Promise.all over one fetch task per file, then the zip generation, and  *)
(* its finally block ends it.  Promise.all rejects on the first failed     *)
(* fetch while the other fetches of that invocation go on settling.        *)
(***************************************************************************)
pipelineVars == <<selectedFiles, runs, sortedFiles, toasts>>

\* files.length of the viewer
ResultFileCount == 2

\* a click that leaves the flag as it was
NotMarked == FALSE

\* setIsExporting(true)
MarkExporting == TRUE

\* if (files.length === 0 || isExporting) return
ExportRefused(n, exporting) == n = 0 \/ exporting

NewExport ==
    [phase |-> "import", result |-> "none",
     tasks |-> [i \in 1..ResultFileCount |-> "unstarted"]]

\* catch and finally of invocation r: setIsExporting(false)
EndExport(r, how) ==
    /\ exports' = [exports EXCEPT ![r].phase = "ended", ![r].result = how]
    /\ isExporting' = FALSE
    /\ UNCHANGED renderedExporting

\* onClick of the Export button, which is rendered when there are files and
\* enabled while the isExporting of the last render is false; the update made
\* in the click handler is rendered before the next event
ExportClick(limit) ==
    /\ Len(exports) < limit
    /\ ResultFileCount > 0
    /\ ~renderedExporting
    /\ IF ExportRefused(ResultFileCount, renderedExporting)
       THEN UNCHANGED exportVars
       ELSE /\ isExporting' = MarkExporting
            /\ renderedExporting' = MarkExporting
            /\ exports' = Append(exports, NewExport)
    /\ UNCHANGED <<pipelineVars, previewVars>>

\* await import("jszip") settles: the fetch tasks start, or the import failed
ImportSettles ==
    \E r \in 1..Len(exports) :
        /\ exports[r].phase = "import"
        /\ \/ /\ exports' = [exports EXCEPT ![r].phase = "fetch",
                                 ![r].tasks = [i \in 1..ResultFileCount |-> "pending"]]
              /\ UNCHANGED <<isExporting, renderedExporting>>
           \/ EndExport(r, "failed")
        /\ UNCHANGED <<pipelineVars, previewVars>>

\* one fetch task settles: the file was added to the zip, or the task threw
FetchSettles ==
    \E r \in 1..Len(exports) : \E i \in 1..ResultFileCount : \E how \in {"ok", "failed"} :
        /\ exports[r].tasks[i] = "pending"
        /\ exports' = [exports EXCEPT ![r].tasks[i] = how]
        /\ UNCHANGED <<isExporting, renderedExporting, pipelineVars, previewVars>>

\* await Promise.all(...) settles: rejected by a failed task, or all fetched
AwaitAll ==
    \E r \in 1..Len(exports) :
        /\ exports[r].phase = "fetch"
        /\ IF \E i \in 1..ResultFileCount : exports[r].tasks[i] = "failed"
           THEN EndExport(r, "failed")
           ELSE /\ \A i \in 1..ResultFileCount : exports[r].tasks[i] = "ok"
                /\ exports' = [exports EXCEPT ![r].phase = "zip"]
                /\ UNCHANGED <<isExporting, renderedExporting>>
        /\ UNCHANGED <<pipelineVars, previewVars>>

\* await zip.generateAsync(...) settles and the download is triggered, or it threw
ZipSettles ==
    \E r \in 1..Len(exports) : \E how \in {"done", "failed"} :
        /\ exports[r].phase = "zip"
        /\ EndExport(r, how)
        /\ UNCHANGED <<pipelineVars, previewVars>>

\* the render that follows setIsExporting(false)
RenderExporting ==
    /\ renderedExporting # isExporting
    /\ renderedExporting' = isExporting
    /\ UNCHANGED <<isExporting, exports, pipelineVars, previewVars>>

NextExport ==
    \/ ExportClick(2)
    \/ ImportSettles
    \/ FetchSettles
    \/ AwaitAll
    \/ ZipSettles
    \/ RenderExporting

SpecExport == Init /\ [][NextExport]_vars

\* the invocations of handleExportAll that have not reached the end of finally
ActiveExports == {r \in 1..Len(exports) : exports[r].phase # "ended"}

\* C23: at most one export is in progress; while one is, the button is
\* disabled, and when none is, isExporting is false.
C23_SingleExport ==
    /\ Cardinality(ActiveExports) <= 1
    /\ ActiveExports # {} => (isExporting /\ renderedExporting)
    /\ ActiveExports = {} => ~isExporting

\* a first export ended by a failed fetch while another of its fetches was still
\* pending, a second export ran to its download, and isExporting is false
C23_Witness ==
    /\ Len(exports) >= 2
    /\ exports[1].result = "failed"
    /\ \E i \in 1..ResultFileCount : exports[1].tasks[i] = "failed"
    /\ exports[2].result = "done"
    /\ ~isExporting

====
